---- MODULE Spec2Model ----
(***************************************************************************)
(* Model of src/utils.py: prep_data (the window selector) and              *)
(* prep_data_stats (the metric aggregator).                                *)
(*                                                                         *)
(* A DataFrame is modelled as the set of its rows (row order is not        *)
(* modelled).  A datetime is a pair (day, minute): day counts days from    *)
(* Monday 2019-12-30 (ISO 2020-W01-1), minute is the minute of the day.    *)
(* Floating-point values are modelled as exact rationals extended with     *)
(* NaN and +/-inf, so equalities below are exact where the program's are   *)
(* equal up to rounding.                                                   *)
(***************************************************************************)
EXTENDS Integers, Sequences, FiniteSets, TLC

VARIABLES df_raw, match_date, df, pc, call, dfw_base, dfw_norm, result, stdout

vars == <<df_raw, match_date, df, pc, call, dfw_base, dfw_norm, result, stdout>>

(***************************************************************************)
(* Bounds of the explored inputs.                                          *)
(***************************************************************************)
\* the raw data starts at most MaxBack weeks before the match date
MaxBack == 9

(***************************************************************************)
(* Calendar: pandas' dt.dayofweek and dt.isocalendar().week, for days      *)
(* 0 .. 1098 (2019-12-30 .. 2023-01-01): ISO year 2020 has 53 weeks and    *)
(* starts on day 0, ISO years 2021 and 2022 have 52 weeks and start on     *)
(* days 371 and 735.                                                       *)
(***************************************************************************)
dayofweek(day) == day % 7

isoweek(day) ==
    IF day < 53 * 7 THEN (day \div 7) + 1
    ELSE IF day < 105 * 7 THEN ((day - 53 * 7) \div 7) + 1
    ELSE ((day - 105 * 7) \div 7) + 1

\* Friday 2021-06-18 (2021-W24-5), the England v Scotland match
MatchSummer == 53 * 7 + 23 * 7 + 4
\* Friday 2022-01-21 (2022-W03-5): its six previous Fridays reach back into 2021
MatchNewYear == 105 * 7 + 2 * 7 + 4

MatchDates == {MatchSummer, MatchNewYear}

(***************************************************************************)
(* Raw gym data (the df_raw argument).                                     *)
(***************************************************************************)
Gym(c, g) == [country |-> c, gym |-> g]

GymsGB == {Gym("England", "gymA"), Gym("England", "gymB"), Gym("Scotland", "gymC")}

GymSets == {GymsGB, GymsGB \cup {Gym("Wales", "gymD")}}

\* time-of-day samples of a day, in minutes: 20:00, 20:30, 21:00
TimeSets == {{20 * 60}, {20 * 60, 21 * 60}, {20 * 60, 20 * 60 + 30, 21 * 60}}

Patterns == {"varied", "flat", "closed"}

Holes == {"none", "gymB-matchday", "gymC-baseline"}

\* occupancy percentage of a gym at a timestamp
BaseOccupancy(g) == IF g.gym = "gymA" THEN 40 ELSE IF g.gym = "gymB" THEN 60 ELSE 30

Occupancy(p, g, day, minute) ==
    IF p = "closed" THEN 0
    ELSE IF p = "flat" THEN BaseOccupancy(g)
    ELSE BaseOccupancy(g) + 2 * ((day \div 7) % 4) + ((day \div 7) % 3) + ((minute - 20 * 60) \div 6)

RawRow(g, day, minute, occ) ==
    [country |-> g.country, gym |-> g.gym, day |-> day, minute |-> minute, occupancy |-> occ]

\* whether the scraper missed this sample
Missing(h, md, g, day, minute) ==
    \/ h = "gymB-matchday" /\ g.gym = "gymB" /\ day = md /\ minute = 20 * 60
    \/ h = "gymC-baseline" /\ g.gym = "gymC" /\ day < md

\* Raw data sampled on the match date's weekday from `first` weeks before the
\* match until one week after it (without the week `gap` weeks before it),
\* plus one sample at midnight of the day after the match.  gymA is sampled on
\* the match date in every case, so the window of prep_data is never empty.
RawData(md, first, gap, gyms, times, p, h) ==
    {RawRow(g, md - 7 * k, t, Occupancy(p, g, md - 7 * k, t)) :
        <<g, k, t>> \in {x \in gyms \X (-1 .. first) \X times :
                            x[2] # gap /\ ~Missing(h, md, x[1], md - 7 * x[2], x[3])}}
    \cup {RawRow(g, md + 1, 0, Occupancy(p, g, md + 1, 20 * 60)) : g \in gyms}

(***************************************************************************)
(* prep_data                                                               *)
(***************************************************************************)
\* line 30: df_raw["datetime"] - 1 day <= match_date (midnight of the match date)
DateFilter(raw, md) ==
    {r \in raw : r.day - 1 < md \/ (r.day - 1 = md /\ r.minute <= 0)}

\* mutant: the weekday filter is skipped
WeekdayFilter_Skipped(rows, md) == rows

\* lines 33-34: retain only same days of week as match date
WeekdayFilter(rows, md) ==
    {r \in rows : dayofweek(r.day) = dayofweek(md)}

WithWeek(r, w) ==
    [country |-> r.country, gym |-> r.gym, day |-> r.day, minute |-> r.minute,
     occupancy |-> r.occupancy, week |-> w]

SetWeek(r, w) == [r EXCEPT !.week = w]

Weeks(rows) == {r.week : r \in rows}

SetMin(S) == CHOOSE x \in S : \A y \in S : x <= y

SetMax(S) == CHOOSE x \in S : \A y \in S : x >= y

\* line 37: df["week"] = ISO week of the year
IsoWeekColumn(rows) == {WithWeek(r, isoweek(r.day)) : r \in rows}

\* line 38: df["week"] = df["week"] - df["week"].min() + 1
Renumber(rows) ==
    IF rows = {} THEN rows
    ELSE {SetWeek(r, r.week - SetMin(Weeks(rows)) + 1) : r \in rows}

\* lines 39-41: if df["week"].max() == 8, shift down and drop week 0
EightWeekCorrection(rows) ==
    IF rows # {} /\ SetMax(Weeks(rows)) = 8
    THEN {r \in {SetWeek(q, q.week - 1) : q \in rows} : r.week > 0}
    ELSE rows

prep_data(raw, md) ==
    EightWeekCorrection(Renumber(IsoWeekColumn(WeekdayFilter(DateFilter(raw, md), md))))

(***************************************************************************)
(* Floating-point values: exact rationals n/d (d > 0, lowest terms), NaN,  *)
(* +inf and -inf, with IEEE-754 rules for the non-finite cases.            *)
(***************************************************************************)
Abs(x) == IF x < 0 THEN -x ELSE x

RECURSIVE GCD(_, _)
GCD(a, b) == IF b = 0 THEN a ELSE GCD(b, a % b)

NaN == [k |-> "nan", n |-> 0, d |-> 1]

PInf == [k |-> "inf", n |-> 1, d |-> 1]

NInf == [k |-> "inf", n |-> -1, d |-> 1]

Rat(n, d) ==
    LET s == IF d < 0 THEN -1 ELSE 1
        g == GCD(Abs(n), Abs(d))
    IN  [k |-> "fin", n |-> (s * n) \div g, d |-> (s * d) \div g]

Zero == Rat(0, 1)

One == Rat(1, 1)

IsNaN(v) == v.k = "nan"

IsFin(v) == v.k = "fin"

Sign(v) == IF v.n > 0 THEN 1 ELSE IF v.n < 0 THEN -1 ELSE 0

Inf(s) == IF s > 0 THEN PInf ELSE NInf

VAdd(a, b) ==
    IF IsNaN(a) \/ IsNaN(b) THEN NaN
    ELSE IF IsFin(a) /\ IsFin(b) THEN Rat(a.n * b.d + b.n * a.d, a.d * b.d)
    ELSE IF IsFin(a) THEN b
    ELSE IF IsFin(b) THEN a
    ELSE IF a = b THEN a ELSE NaN

VMul(a, b) ==
    IF IsNaN(a) \/ IsNaN(b) THEN NaN
    ELSE IF IsFin(a) /\ IsFin(b) THEN Rat(a.n * b.n, a.d * b.d)
    ELSE IF Sign(a) * Sign(b) = 0 THEN NaN ELSE Inf(Sign(a) * Sign(b))

VNeg(a) == VMul(Rat(-1, 1), a)

VSub(a, b) == VAdd(a, VNeg(b))

VDiv(a, b) ==
    IF IsNaN(a) \/ IsNaN(b) THEN NaN
    ELSE IF IsFin(a) /\ IsFin(b)
    THEN IF b.n # 0 THEN Rat(a.n * b.d, a.d * b.n)
         ELSE IF a.n = 0 THEN NaN ELSE Inf(Sign(a))
    ELSE IF IsFin(a) THEN Zero
    ELSE IF IsFin(b) THEN (IF Sign(b) < 0 THEN Inf(-Sign(a)) ELSE a)
    ELSE NaN

\* sum of the values of a function
RECURSIVE SumFn(_)
SumFn(f) ==
    IF DOMAIN f = {} THEN Zero
    ELSE LET x == CHOOSE x \in DOMAIN f : TRUE
         IN  VAdd(f[x], SumFn([y \in DOMAIN f \ {x} |-> f[y]]))

\* pandas mean(): missing values are skipped; NaN when nothing is left
Mean(f) ==
    LET present == {x \in DOMAIN f : ~IsNaN(f[x])}
    IN  IF present = {} THEN NaN
        ELSE VDiv(SumFn([x \in present |-> f[x]]), Rat(Cardinality(present), 1))

\* the elements of a set of integers in ascending order
RECURSIVE Sorted(_)
Sorted(S) == IF S = {} THEN <<>> ELSE <<SetMin(S)>> \o Sorted(S \ {SetMin(S)})

(***************************************************************************)
(* prep_data_stats                                                         *)
(***************************************************************************)
\* line 78: dfw["time"] = dfw["datetime"].dt.time, and line 81: time(kickoff, 0, 0)
KickoffRows(rows, kickoff) == {r \in rows : r.minute = kickoff * 60}

KickoffKey(r) == [country |-> r.country, gym |-> r.gym]

AucKey(r) == [country |-> r.country, gym |-> r.gym, time |-> r.minute]

\* the occupancy column of pivot(): the value of the (key, week) cell, NaN when
\* the long table has no such row
Cell(cells, key, w) ==
    IF \E c \in cells : c.key = key /\ c.week = w
    THEN Rat((CHOOSE c \in cells : c.key = key /\ c.week = w).occupancy, 1)
    ELSE NaN

\* pivot() raises ValueError when two rows share index and column
HasDuplicates(cells) ==
    \E c1, c2 \in cells : c1 # c2 /\ c1.key = c2.key /\ c1.week = c2.week

\* lines 96 and 124: mean of the columns w1 .. w6
BaselineMean(w) == Mean([i \in 1 .. 6 |-> w[i]])

\* lines 82-96 and 109-124: pivot on week, name the week columns w1 .. w7 by
\* position, add w1-6.  The assignment of the column names raises ValueError
\* unless the pivot has exactly 7 week columns.
Pivot(cells) ==
    LET weeks == Sorted({c.week : c \in cells})
        keys == {c.key : c \in cells}
    IN  IF HasDuplicates(cells) \/ Len(weeks) # 7
        THEN [kind |-> "ValueError", rows |-> {}]
        ELSE [kind |-> "DataFrame",
              rows |-> {LET w == [i \in 1 .. 7 |-> Cell(cells, key, weeks[i])]
                        IN  [key |-> key, w |-> w, w16 |-> BaselineMean(w)] :
                        key \in keys}]

KickoffCells(rows, kickoff) ==
    {[key |-> KickoffKey(r), week |-> r.week, occupancy |-> r.occupancy] :
        r \in KickoffRows(rows, kickoff)}

AucCells(rows) ==
    {[key |-> AucKey(r), week |-> r.week, occupancy |-> r.occupancy] : r \in rows}

\* lines 98 and 126: mean of w1-6 over the rows of one country
CountryBaseline(wide, country) ==
    LET sel == {r \in wide : r.key.country = country}
    IN  Mean([r \in sel |-> r.w16])

\* mutant: the two baselines are swapped in the map
BaselineMap_Swapped(wide, country) ==
    IF country = "England" THEN CountryBaseline(wide, "Scotland")
    ELSE IF country = "Scotland" THEN CountryBaseline(wide, "England")
    ELSE NaN

\* lines 100-101: dfw["country"].map(baseline_map), NaN for a country not in the map
BaselineMap(wide, country) ==
    IF country = "England" THEN CountryBaseline(wide, "England")
    ELSE IF country = "Scotland" THEN CountryBaseline(wide, "Scotland")
    ELSE NaN

\* lines 97-102 and 125-130
Normalise(wide, norm) ==
    IF norm
    THEN {[key |-> r.key,
           w |-> [r.w EXCEPT ![7] = VDiv(r.w[7], BaselineMap(wide, r.key.country))],
           w16 |-> VDiv(r.w16, BaselineMap(wide, r.key.country))] : r \in wide}
    ELSE wide

\* mutant: rows holding a missing value are dropped after the melt
Melt_DropMissing(wide) ==
    {[key |-> r.key, week |-> "w1-6", occupancy |-> r.w16] : r \in {q \in wide : ~IsNaN(q.w16)}}
    \cup {[key |-> r.key, week |-> "w7", occupancy |-> r.w[7]] :
             r \in {q \in wide : ~IsNaN(q.w[7])}}

\* lines 103-107 and 131-135: melt w1-6 and w7 into rows labelled by "week"
Melt(wide) ==
    {[key |-> r.key, week |-> "w1-6", occupancy |-> r.w16] : r \in wide}
    \cup {[key |-> r.key, week |-> "w7", occupancy |-> r.w[7]] : r \in wide}

\* line 136: x.hour + x.minute / 60
Hours(minute) == VAdd(Rat(minute \div 60, 1), Rat(minute % 60, 60))

\* scipy.integrate.simps(y, x) with its default even="avg"; x, y are sequences
\* indexed from 1, start and stop are the 0-based slice bounds of the library
SimpsTerm(y, x, i) ==
    LET h0 == VSub(x[i + 2], x[i + 1])
        h1 == VSub(x[i + 3], x[i + 2])
        hsum == VAdd(h0, h1)
        hprod == VMul(h0, h1)
        h0divh1 == VDiv(h0, h1)
    IN  VMul(VDiv(hsum, Rat(6, 1)),
             VAdd(VAdd(VMul(y[i + 1], VSub(Rat(2, 1), VDiv(One, h0divh1))),
                       VDiv(VMul(VMul(y[i + 2], hsum), hsum), hprod)),
                  VMul(y[i + 3], VSub(Rat(2, 1), h0divh1))))

BasicSimps(y, x, start, stop) ==
    LET idx == {i \in 0 .. Len(y) : i >= start /\ i < stop /\ (i - start) % 2 = 0}
    IN  SumFn([i \in idx |-> SimpsTerm(y, x, i)])

Trapezoid(y, x, i, j) == VMul(VMul(Rat(1, 2), VSub(x[j], x[i])), VAdd(y[j], y[i]))

Simps(y, x) ==
    LET N == Len(y)
    IN  IF N % 2 = 0
        THEN IF N = 0 THEN Zero
             ELSE VAdd(VDiv(VAdd(BasicSimps(y, x, 0, N - 3), BasicSimps(y, x, 1, N - 2)),
                            Rat(2, 1)),
                       VDiv(VAdd(Trapezoid(y, x, N - 1, N), Trapezoid(y, x, 1, 2)),
                            Rat(2, 1)))
        ELSE BasicSimps(y, x, 0, N - 2)

\* lines 72-75 and 137-141: one auc value per (country, gym, week) group,
\* integrated over the group's time-of-day samples in ascending order
AucGroups(long) ==
    {LET grp == {r \in long : r.key.country = g[1] /\ r.key.gym = g[2] /\ r.week = g[3]}
         ts == Sorted({r.key.time : r \in grp})
         x == [i \in 1 .. Len(ts) |-> Hours(ts[i])]
         y == [i \in 1 .. Len(ts) |->
                 (CHOOSE r \in grp : r.key.time = ts[i]).occupancy]
     IN  [country |-> g[1], gym |-> g[2], week |-> g[3], auc |-> Simps(y, x)] :
     g \in {<<r.key.country, r.key.gym, r.week>> : r \in long}}

\* lines 103-107: the columns country, gym, week, occupancy of the kick-off result
KickoffLong(long) ==
    {[country |-> r.key.country, gym |-> r.key.gym, week |-> r.week,
      occupancy |-> r.occupancy] : r \in long}

InvalidMetricMessage == "`metric` must be 'kick-off' or 'auc'."

Raised(kind) == [kind |-> kind, rows |-> {}, base |-> {}, norm |-> {}, printed |-> <<>>]

\* mutant: an unrecognised metric raises instead of printing
InvalidMetric_Raises == Raised("InvalidMetric")

\* lines 143-145: print the message and return (None)
InvalidMetric ==
    [kind |-> "None", rows |-> {}, base |-> {}, norm |-> {},
     printed |-> <<InvalidMetricMessage>>]

prep_data_stats(rows, kickoff, norm, metric) ==
    IF metric = "kick-off"
    THEN LET pv == Pivot(KickoffCells(rows, kickoff))
             nm == Normalise(pv.rows, norm)
         IN  IF pv.kind # "DataFrame" THEN Raised(pv.kind)
             ELSE [kind |-> "DataFrame", rows |-> KickoffLong(Melt(nm)),
                   base |-> pv.rows, norm |-> nm, printed |-> <<>>]
    ELSE IF metric = "auc"
    THEN LET pv == Pivot(AucCells(rows))
             nm == Normalise(pv.rows, norm)
         IN  IF pv.kind # "DataFrame" THEN Raised(pv.kind)
             ELSE [kind |-> "DataFrame", rows |-> AucGroups(Melt(nm)),
                   base |-> pv.rows, norm |-> nm, printed |-> <<>>]
    ELSE InvalidMetric

(***************************************************************************)
(* State machine: the caller prepares the data of one match and then       *)
(* computes its statistics.                                                *)
(***************************************************************************)
NoCall == [kickoff |-> 0, norm |-> FALSE, metric |-> "-"]

NoResult == [kind |-> "-", rows |-> {}]

Init ==
    /\ match_date \in MatchDates
    /\ \E first \in 0 .. MaxBack, gap \in {-2, 2}, gyms \in GymSets,
          times \in TimeSets, p \in Patterns, h \in Holes :
          df_raw = RawData(match_date, first, gap, gyms, times, p, h)
    /\ df = {}
    /\ pc = "raw"
    /\ call = NoCall
    /\ dfw_base = {}
    /\ dfw_norm = {}
    /\ result = NoResult
    /\ stdout = <<>>

PrepData ==
    /\ pc = "raw"
    /\ df' = prep_data(df_raw, match_date)
    /\ pc' = "prepped"
    /\ UNCHANGED <<df_raw, match_date, call, dfw_base, dfw_norm, result, stdout>>

Kickoffs == {20, 21}

Metrics == {"kick-off", "auc", "median"}

PrepDataStats ==
    /\ pc = "prepped"
    /\ \E kickoff \in Kickoffs, norm \in BOOLEAN, metric \in Metrics :
          LET out == prep_data_stats(df, kickoff, norm, metric)
          IN  /\ call' = [kickoff |-> kickoff, norm |-> norm, metric |-> metric]
              /\ dfw_base' = out.base
              /\ dfw_norm' = out.norm
              /\ result' = [kind |-> out.kind, rows |-> out.rows]
              /\ stdout' = stdout \o out.printed
    /\ pc' = "stats"
    /\ UNCHANGED <<df_raw, match_date, df>>

Next == PrepData \/ PrepDataStats

Spec == Init /\ [][Next]_vars

(***************************************************************************)
(* Properties                                                              *)
(***************************************************************************)
Prepped == pc # "raw"

\* the raw records on the match date's weekday, not later than the match date
SameWeekdayUpToMatch ==
    {r \in df_raw : r.day <= match_date /\ r.day % 7 = match_date % 7}

\* a windowed record without its week column
Raw(r) == RawRow([country |-> r.country, gym |-> r.gym], r.day, r.minute, r.occupancy)

\* the raw data has a sample on every occurrence of the match date's weekday
\* from its first one to the match date
WeeklyWithoutGaps ==
    \A r \in SameWeekdayUpToMatch :
        \A k \in 0 .. MaxBack + 1 :
            match_date - 7 * k >= r.day
                => \E q \in SameWeekdayUpToMatch : q.day = match_date - 7 * k

\* C1: the week values returned by prep_data are a contiguous subset of 1..7,
\* whatever number of same-weekday weeks the raw data holds before the match
\* (stated for raw data sampled every week).
C1_WeeksContiguousWithin1To7 ==
    (Prepped /\ df # {} /\ WeeklyWithoutGaps) =>
        /\ Weeks(df) \subseteq 1 .. 7
        /\ \A w \in SetMin(Weeks(df)) .. SetMax(Weeks(df)) : w \in Weeks(df)

\* C2: week 7 is the match date, week k the date 7*(7-k) days before it; the
\* records of week k are exactly the retained records of that date, at most one
\* per (country, gym, time of day); nothing older than six weeks is returned
\* (stated for raw data sampled every week from at least six weeks before the
\* match).
C2_WeekKIsKthPrecedingWeekday ==
    (Prepped /\ WeeklyWithoutGaps
       /\ \E r \in SameWeekdayUpToMatch : r.day <= match_date - 42) =>
        /\ \A r \in df : r.week \in 1 .. 7 /\ r.day = match_date - 7 * (7 - r.week)
        /\ \A k \in 1 .. 7 :
              {Raw(r) : r \in {q \in df : q.week = k}}
                = {r \in SameWeekdayUpToMatch : r.day = match_date - 7 * (7 - k)}
        /\ \A r1, r2 \in df :
              (r1.week = r2.week /\ r1.country = r2.country /\ r1.gym = r2.gym
                 /\ r1.minute = r2.minute) => r1 = r2
        /\ \A r \in df : match_date - 42 <= r.day /\ r.day <= match_date

\* the retained records cover 8 distinct ISO weeks and the ISO week wraps
SpansYearBoundaryWithEightWeeks ==
    /\ Cardinality({isoweek(r.day) : r \in SameWeekdayUpToMatch}) = 8
    /\ \E r1, r2 \in SameWeekdayUpToMatch :
          r1.day < r2.day /\ isoweek(r1.day) > isoweek(r2.day)

\* C3: across a year boundary with 8 ISO weeks, the returned weeks are exactly
\* 1..7 in chronological order and the earliest week is the one dropped.
C3_YearBoundaryEightWeeksGive1To7 ==
    (Prepped /\ SpansYearBoundaryWithEightWeeks /\ WeeklyWithoutGaps) =>
        /\ Weeks(df) = 1 .. 7
        /\ \A r \in df : r.day = match_date - 7 * (7 - r.week)
        /\ {Raw(r) : r \in df}
             = {r \in SameWeekdayUpToMatch :
                   r.day # SetMin({q.day : q \in SameWeekdayUpToMatch})}

\* C4: every record returned by prep_data has the weekday of the match date; a
\* record at midnight of the day after the match is not returned.
C4_SameWeekdayAsMatchDate ==
    Prepped =>
        /\ \A r \in df : r.day % 7 = match_date % 7
        /\ \A r \in df : ~(r.day = match_date + 1 /\ r.minute = 0)

\* a midnight record of the day after the match passes the date filter and is
\* not in the non-empty output
C4_MidnightRecordDropped ==
    /\ pc = "prepped"
    /\ df # {}
    /\ \E r \in DateFilter(df_raw, match_date) :
          /\ r.day = match_date + 1
          /\ r.minute = 0
          /\ \A q \in df : Raw(q) # r

UnrecognisedMetric == pc = "stats" /\ call.metric \notin {"kick-off", "auc"}

Pivoted == pc = "stats" /\ dfw_base # {}

\* C6: with norm=True, a windowed input holding a country other than England
\* and Scotland is rejected with UnknownCountry; no rows are returned for it.
C6_UnknownCountryRejected ==
    (Pivoted /\ call.norm /\ \E r \in dfw_base : r.key.country \notin {"England", "Scotland"})
        => (result.kind = "UnknownCountry" /\ result.rows = {})

CountryRows(wide, c) == {r \in wide : r.key.country = c}

BaselineOf(wide, c) == Mean([r \in CountryRows(wide, c) |-> r.w16])

DividedBy(c, d) ==
    \A r0 \in CountryRows(dfw_base, c) :
        \E r1 \in CountryRows(dfw_norm, c) :
            /\ r1.key = r0.key
            /\ r1.w16 = VDiv(r0.w16, d)
            /\ r1.w[7] = VDiv(r0.w[7], d)

Normalised == pc = "stats" /\ call.norm /\ result.kind = "DataFrame"

\* C7 as stated: after normalisation the mean of w1-6 over the rows of each of
\* England and Scotland that has a row is 1.0, every row having been divided by
\* the country's baseline mean, also when the baseline occupancies are all 0.
C7_NormalisedBaselineMeanIsOneAlways ==
    Normalised =>
        \A c \in {"England", "Scotland"} :
            CountryRows(dfw_base, c) # {} =>
                /\ BaselineOf(dfw_norm, c) = One
                /\ DividedBy(c, BaselineOf(dfw_base, c))

\* C7 as amended: the same, for each country whose baseline mean before the
\* normalisation exists (some row has a w1-6 value) and is not 0.
C7_NormalisedBaselineMeanIsOne ==
    Normalised =>
        \A c \in {"England", "Scotland"} :
            (IsFin(BaselineOf(dfw_base, c)) /\ BaselineOf(dfw_base, c) # Zero) =>
                /\ BaselineOf(dfw_norm, c) = One
                /\ DividedBy(c, BaselineOf(dfw_base, c))

\* two England gyms with baselines 40 and 60 are normalised to 0.8 and 1.2
C7_FortySixtyExample ==
    /\ Normalised
    /\ call.metric = "kick-off"
    /\ \E a, b \in CountryRows(dfw_norm, "England") :
          a.key.gym = "gymA" /\ a.w16 = Rat(4, 5) /\ b.key.gym = "gymB" /\ b.w16 = Rat(6, 5)
    /\ BaselineOf(dfw_base, "England") = Rat(50, 1)

\* occupancy of a gym at kickoff:00:00 on a day of the raw data, NaN if not sampled
RawAtKickoff(c, g, day) ==
    LET hit == {r \in df_raw : r.country = c /\ r.gym = g /\ r.day = day
                                /\ r.minute = call.kickoff * 60}
    IN  IF hit = {} THEN NaN ELSE Rat((CHOOSE r \in hit : TRUE).occupancy, 1)

\* C8: with norm=False and the kick-off metric, the returned w7 is the gym's
\* occupancy at kickoff on the match date and w1-6 the mean of its occupancies
\* at kickoff over the six weeks before it.
C8_KickoffValuesAreThoseOfTheirWeeks ==
    (pc = "stats" /\ call.metric = "kick-off" /\ ~call.norm /\ result.kind = "DataFrame") =>
        \A r \in result.rows :
            /\ r.week = "w7" => r.occupancy = RawAtKickoff(r.country, r.gym, match_date)
            /\ r.week = "w1-6" =>
                  r.occupancy = Mean([k \in 1 .. 6 |->
                                        RawAtKickoff(r.country, r.gym, match_date - 7 * k)])

Labels == {"w1-6", "w7"}

TwoRowsPerGym ==
    /\ \A r \in result.rows : r.week \in Labels
    /\ \A r \in result.rows :
          /\ Cardinality({q \in result.rows : q.country = r.country /\ q.gym = r.gym}) = 2
          /\ \A l \in Labels :
                \E q \in result.rows : q.country = r.country /\ q.gym = r.gym /\ q.week = l

\* the weeks of the windowed data in which a gym has a record at kickoff:00:00
KickoffWeeksOf(c, g) ==
    {r.week : r \in {q \in df : q.country = c /\ q.gym = g /\ q.minute = call.kickoff * 60}}

\* the weeks behind a label of the kick-off result: the week columns in ascending
\* order, the last one for w7 and the six before it for w1-6
WeeksOfLabel(l) ==
    LET ws == Sorted({r.week : r \in {q \in df : q.minute = call.kickoff * 60}})
    IN  IF l = "w7" THEN {ws[7]} ELSE {ws[i] : i \in 1 .. 6}

Returned == pc = "stats" /\ result.kind = "DataFrame"

\* C9 as stated: two rows per reported gym, labelled w1-6 and w7; with the
\* kick-off metric a gym without a record at kickoff in a week is absent from
\* the results for that week rather than reported with a missing value.
C9_TwoRowsAndNoMissingValue ==
    Returned =>
        /\ TwoRowsPerGym
        /\ call.metric = "kick-off" =>
              \A r \in result.rows :
                  KickoffWeeksOf(r.country, r.gym) \cap WeeksOfLabel(r.week) # {}

\* C9 as amended: two rows per reported gym, labelled w1-6 and w7; with the
\* kick-off metric the reported gyms are those with a record at kickoff in at
\* least one week, and a gym without one in the week of the w7 column (in the
\* weeks of the columns w1..w6) still has its w7 (w1-6) row, holding a missing
\* value.
C9_TwoRowsPerReportedGym ==
    Returned =>
        /\ TwoRowsPerGym
        /\ call.metric = "kick-off" =>
              /\ {<<r.country, r.gym>> : r \in result.rows}
                   = {<<r.country, r.gym>> : r \in {q \in df : q.minute = call.kickoff * 60}}
              /\ \A r \in result.rows :
                    KickoffWeeksOf(r.country, r.gym) \cap WeeksOfLabel(r.week) = {}
                        => IsNaN(r.occupancy)

\* a gym sampled at kickoff in the baseline weeks but not on the match day is
\* reported with both rows, the w7 one holding a missing value
C9_GymWithoutMatchDaySample ==
    /\ Returned
    /\ call.metric = "kick-off"
    /\ \E r, q \in result.rows :
          /\ r.gym = "gymB" /\ r.week = "w7" /\ IsNaN(r.occupancy)
          /\ q.gym = "gymB" /\ q.week = "w1-6" /\ IsFin(q.occupancy)
          /\ KickoffWeeksOf(r.country, r.gym) \cap WeeksOfLabel("w7") = {}

\* the time-of-day samples of a gym's groups in the auc branch
SamplesOf(c, g) == {r.key.time : r \in {q \in dfw_norm : q.key.country = c /\ q.key.gym = g}}

\* C10: with the auc metric a group with fewer than 2 distinct time-of-day
\* samples makes the call fail with InsufficientData; no AUC value is returned.
C10_FewSamplesRejected ==
    (Pivoted /\ call.metric = "auc"
       /\ \E r \in dfw_norm : Cardinality(SamplesOf(r.key.country, r.key.gym)) < 2)
        => (result.kind = "InsufficientData" /\ result.rows = {})


====
